---- MODULE Spec2Model ----
(***************************************************************************)
(* math-sll: a fixed point math library (src/math-sll.h v1.24 and          *)
(* src/math-sll.c v1.3).                                                   *)
(*                                                                         *)
(* The library computes on a signed two-word integer "sll": the high word  *)
(* is the integer part, the low word the fraction.  In the source a word   *)
(* has 32 bits.  TLC's integers are 32 bits wide, so the model keeps the   *)
(* format and every algorithm but makes the word WordBits wide: an sll is  *)
(* a signed integer of 2 * WordBits bits, an int or a register one of      *)
(* WordBits bits, and every 32.32 constant of the source is cut to its low *)
(* WordBits integer bits and its top WordBits fraction bits.  Every        *)
(* operation wraps at the width of its C type (two's complement), which is *)
(* what the ARM and i386 builds of the library compute.                    *)
(*                                                                         *)
(* C passes arguments by value.  An operator that states the type of an    *)
(* argument (CASE retval \in SLL -> ...) has the argument computed before  *)
(* its body, as in the source: the functions of the library do so, and so  *)
(* do the operators of an assignment made again and again (retval of       *)
(* calc_exp, u of sllinv, xn of sllsqrt) for the value they continue from. *)
(***************************************************************************)
EXTENDS Integers, Sequences, FiniteSets, TLC

\* Width of a machine word (32 in the source).
WordBits == 4

RECURSIVE Pow2(_)
Pow2(k) == IF k <= 0 THEN 1 ELSE 2 * Pow2(k - 1)

\* 2^32 and 2^64 of the source.
WordMod == Pow2(WordBits)
SllMod == WordMod * WordMod

\* Every value of type sll, and of type int.
SLL == (0 - (SllMod \div 2)) .. ((SllMod \div 2) - 1)
INT == (0 - (WordMod \div 2)) .. ((WordMod \div 2) - 1)

\* (ull) z and (sll) u: the same bits read unsigned and signed.
U64(z) == z % SllMod
S64(u) == ((u + (SllMod \div 2)) % SllMod) - (SllMod \div 2)
\* (unsigned) z and (int) u.
U32(z) == z % WordMod
S32(u) == ((u + (WordMod \div 2)) % WordMod) - (WordMod \div 2)

\* Low and high word of an unsigned double word.
LO(v) == v % WordMod
HI(v) == (v \div WordMod) % WordMod

\* A constant 0x<ip><f1..f8>LL of the source, cut to the model's width: the
\* integer part ip, then the top WordBits bits of the 32 fraction bits that
\* the eight hex digits fr spell.
Fix(ip, fr) ==
    LET f28 == ((((((fr[1] * 16 + fr[2]) * 16 + fr[3]) * 16 + fr[4]) * 16 + fr[5]) * 16
                  + fr[6]) * 16 + fr[7])
    IN  S64((ip % WordMod) * WordMod + (f28 \div Pow2(28 - WordBits)))

CONST_0 == Fix(0, <<0, 0, 0, 0, 0, 0, 0, 0>>)
CONST_1 == Fix(1, <<0, 0, 0, 0, 0, 0, 0, 0>>)
CONST_2 == Fix(2, <<0, 0, 0, 0, 0, 0, 0, 0>>)
CONST_3 == Fix(3, <<0, 0, 0, 0, 0, 0, 0, 0>>)
CONST_4 == Fix(4, <<0, 0, 0, 0, 0, 0, 0, 0>>)
CONST_1_2 == Fix(0, <<8, 0, 0, 0, 0, 0, 0, 0>>)
CONST_1_3 == Fix(0, <<5, 5, 5, 5, 5, 5, 5, 5>>)
CONST_1_4 == Fix(0, <<4, 0, 0, 0, 0, 0, 0, 0>>)
CONST_1_5 == Fix(0, <<3, 3, 3, 3, 3, 3, 3, 3>>)
CONST_1_6 == Fix(0, <<2, 10, 10, 10, 10, 10, 10, 10>>)
CONST_1_7 == Fix(0, <<2, 4, 9, 2, 4, 9, 2, 4>>)
CONST_1_8 == Fix(0, <<2, 0, 0, 0, 0, 0, 0, 0>>)
CONST_1_9 == Fix(0, <<1, 12, 7, 1, 12, 7, 1, 12>>)
CONST_1_10 == Fix(0, <<1, 9, 9, 9, 9, 9, 9, 9>>)
CONST_1_11 == Fix(0, <<1, 7, 4, 5, 13, 1, 7, 4>>)
CONST_1_12 == Fix(0, <<1, 5, 5, 5, 5, 5, 5, 5>>)
CONST_1_20 == Fix(0, <<0, 12, 12, 12, 12, 12, 12, 12>>)
CONST_1_30 == Fix(0, <<0, 8, 8, 8, 8, 8, 8, 8>>)
CONST_1_42 == Fix(0, <<0, 6, 1, 8, 6, 1, 8, 6>>)
CONST_1_56 == Fix(0, <<0, 4, 9, 2, 4, 9, 2, 4>>)
CONST_1_72 == Fix(0, <<0, 3, 8, 14, 3, 8, 14, 3>>)
CONST_1_90 == Fix(0, <<0, 2, 13, 8, 2, 13, 8, 2>>)
CONST_1_110 == Fix(0, <<0, 2, 5, 3, 12, 8, 2, 5>>)
CONST_1_132 == Fix(0, <<0, 1, 15, 0, 7, 12, 1, 15>>)
CONST_1_156 == Fix(0, <<0, 1, 10, 4, 1, 10, 4, 1>>)
CONST_E == Fix(2, <<11, 7, 14, 1, 5, 1, 6, 2>>)
CONST_1_E == Fix(0, <<5, 14, 2, 13, 5, 8, 13, 8>>)
CONST_SQRTE == Fix(1, <<10, 6, 1, 2, 9, 8, 14, 1>>)
CONST_1_SQRTE == Fix(0, <<9, 11, 4, 5, 9, 7, 14, 3>>)
CONST_PI_2 == Fix(1, <<9, 2, 1, 15, 11, 5, 4, 4>>)
CONST_PI_4 == Fix(0, <<12, 9, 0, 15, 13, 10, 10, 2>>)
CONST_2_PI == Fix(0, <<10, 2, 15, 9, 8, 3, 6, 14>>)

(***************************************************************************)
(* Conversions and the exact operations.                                   *)
(***************************************************************************)
int2sll(i) == S64(i * WordMod)
sll2int(s) == S32(s \div WordMod)
sllint(s) == S64(U64(s) - LO(U64(s)))
sllfrac(s) == LO(U64(s))
slladd(a, b) == S64(a + b)
sllneg(s) == S64(0 - s)
sllsub(a, b) == S64(a - b)

(***************************************************************************)
(* Multiplication, math-sll.c: unsigned multiply, sign handled outside.    *)
(***************************************************************************)

\* umul, register by register.  left is the double word C:D (r1:r0), right
\* the double word A:B (r3:r2); the result is r1:r0.  Each group of
\* instructions hands the registers that are still live to the next.

\* umull r4, r5, r1, r3 ; add r1, r2, r4
umul_high(C, A, r0, r2) == ((r2 + LO(C * A)) % WordMod) * WordMod + r0

\* umull r2, r6, r0, r3 ; adds r0, r2, r4 ; adc r2, r5, r6
umul_cross2(D, C, A, r4, r5) ==
    umul_high(C, A,
              (LO(D * A) + r4) % WordMod,
              (r5 + HI(D * A) + ((LO(D * A) + r4) \div WordMod)) % WordMod)

\* The same with the carry of the first addition dropped.
umul_cross1_no_carry(D, C, A, r4, r5, r6) ==
    umul_cross2(D, C, A, (r4 + r5) % WordMod, r6 % WordMod)

\* adds r4, r4, r5 ; adc r5, r6, #0
umul_cross1(D, C, A, r4, r5, r6) ==
    umul_cross2(D, C, A, (r4 + r5) % WordMod, (r6 + ((r4 + r5) \div WordMod)) % WordMod)

\* umull r6, r4, r0, r2 ; umull r5, r6, r1, r2
umul_low(D, C, B, A) == umul_cross1(D, C, A, HI(D * B), LO(C * B), HI(C * B))

umul(left, right) == umul_low(LO(left), HI(left), LO(right), HI(right))

\* if (left < 0) left = -left, and the same for right.
sllmul_magnitude(v) == IF v < CONST_0 THEN sllneg(v) ELSE v

\* return ((sign) ? -retval : retval)
sllmul_sign(sign, retval) == IF sign # 0 THEN sllneg(retval) ELSE retval

\* sllmul with the sign of the product dropped.
sllmul_unsigned(left, right) ==
    S64(umul(U64(sllmul_magnitude(left)), U64(sllmul_magnitude(right))))

\* sllmul of math-sll.c: sign counts the negative operands, modulo 2.
sllmul(left, right) ==
    CASE left \in SLL /\ right \in SLL ->
    sllmul_sign(((IF left < CONST_0 THEN 1 ELSE 0) + (IF right < CONST_0 THEN 1 ELSE 0)) % 2,
                S64(umul(U64(sllmul_magnitude(left)), U64(sllmul_magnitude(right)))))

(***************************************************************************)
(* Multiplication, math-sll.h: the inline assembly of the two builds.      *)
(***************************************************************************)

\* The ARM sllmul without the correction for a negative y.
sllmul_arm_one_correction(x, y) ==
    LET Q1 == LO(U64(x))
        R1 == HI(U64(x))
        Q2 == LO(U64(y))
        R2 == HI(U64(y))
        acc2 == (LO(R1 * R2) * WordMod + HI(Q1 * Q2) + Q1 * R2 + Q2 * R1) % SllMod
        R0c == IF R1 >= WordMod \div 2 THEN (HI(acc2) - Q2) % WordMod ELSE HI(acc2)
    IN  S64(R0c * WordMod + LO(acc2))

\* ARM.  %Q is the low register of a double word, %R the high one.
sllmul_arm(x, y) ==
    LET Q1 == LO(U64(x))
        R1 == HI(U64(x))
        Q2 == LO(U64(y))
        R2 == HI(U64(y))
        \* umull %R0, %Q0, %Q1, %Q2   (RdLo = %R0, RdHi = %Q0)
        Q0a == HI(Q1 * Q2)
        \* mul %R0, %R1, %R2
        R0a == LO(R1 * R2)
        \* umlal %Q0, %R0, %Q1, %R2
        acc1 == (R0a * WordMod + Q0a + Q1 * R2) % SllMod
        \* umlal %Q0, %R0, %Q2, %R1
        acc2 == (acc1 + Q2 * R1) % SllMod
        Q0b == LO(acc2)
        R0b == HI(acc2)
        \* tst %R1, #0x80000000 ; subne %R0, %R0, %Q2
        R0c == IF R1 >= WordMod \div 2 THEN (R0b - Q2) % WordMod ELSE R0b
        \* tst %R2, #0x80000000 ; subne %R0, %R0, %Q1
        R0d == IF R2 >= WordMod \div 2 THEN (R0c - Q1) % WordMod ELSE R0c
    IN  S64(R0d * WordMod + Q0b)

\* i386.  %1, %2 are the low and high word of x, %3, %4 those of y.
sllmul_i386(x, y) ==
    LET m1 == LO(U64(x))
        m2 == HI(U64(x))
        m3 == LO(U64(y))
        m4 == HI(U64(y))
        \* movl %1, %eax ; mull %3 ; movl %edx, %ebx
        ebx1 == HI(m1 * m3)
        \* movl %2, %eax ; mull %4 ; movl %eax, %ecx
        ecx1 == LO(m2 * m4)
        \* movl %1, %eax ; mull %4 ; addl %eax, %ebx ; adcl %edx, %ecx
        ebx2 == (ebx1 + LO(m1 * m4)) % WordMod
        cf1 == (ebx1 + LO(m1 * m4)) \div WordMod
        ecx2 == (ecx1 + HI(m1 * m4) + cf1) % WordMod
        \* movl %2, %eax ; mull %3 ; addl %ebx, %eax ; adcl %ecx, %edx
        eax3 == (LO(m2 * m3) + ebx2) % WordMod
        cf2 == (LO(m2 * m3) + ebx2) \div WordMod
        edx3 == (HI(m2 * m3) + ecx2 + cf2) % WordMod
        \* btl $31, %2 ; jnc 1f ; subl %3, %edx
        edx4 == IF m2 >= WordMod \div 2 THEN (edx3 - m3) % WordMod ELSE edx3
        \* btl $31, %4 ; jnc 1f ; subl %1, %edx
        edx5 == IF m4 >= WordMod \div 2 THEN (edx4 - m1) % WordMod ELSE edx4
    IN  S64(edx5 * WordMod + eax3)

(***************************************************************************)
(* math-sll.h: shifts, floor and ceiling.                                  *)
(***************************************************************************)
h_sllmul2(x) == S64(U64(x) * 2)
h_sllmul4(x) == S64(U64(x) * 4)
\* _sllmul2n: X << N
h_sllmul2n(x, n) == S64(U64(x) * Pow2(n))
\* The ARM sllmul2n without the bits that cross from the low to the high word.
h_sllmul2n_arm_no_orr(x, n) ==
    S64(((HI(U64(x)) * Pow2(n)) % WordMod) * WordMod + ((LO(U64(x)) * Pow2(n)) % WordMod))

\* The ARM build: the two result registers are shifted apart.
h_sllmul2n_arm(x, n) ==
    LET Q1 == LO(U64(x))
        R1 == HI(U64(x))
        \* mov %R0, %R1, lsl n ; orr %R0, %R0, %Q1, lsr (32 - n)
        \* (the bits of the two operands of orr do not overlap)
        R0 == ((R1 * Pow2(n)) % WordMod) + (Q1 \div Pow2(WordBits - n))
        \* mov %Q0, %Q1, lsl n
        Q0 == (Q1 * Pow2(n)) % WordMod
    IN  S64(R0 * WordMod + Q0)
h_slldiv2(x) == x \div 2
h_slldiv4(x) == x \div 4
h_slldiv2n(x, n) == x \div Pow2(n)

\* Floor that rounds toward zero.
sllfloor_toward_zero(x) ==
    IF x < CONST_0 THEN sllneg(sllint(sllneg(x))) ELSE sllint(x)

sllfloor(x) ==
    LET retval == sllint(x)
    IN  IF retval > x THEN sllsub(retval, CONST_1) ELSE retval

\* Ceiling that adds one also when x is already an integer.
sllceil_le(x) ==
    LET retval == sllint(x)
    IN  IF retval <= x THEN slladd(retval, CONST_1) ELSE retval

sllceil(x) ==
    LET retval == sllint(x)
    IN  IF retval < x THEN slladd(retval, CONST_1) ELSE retval

(***************************************************************************)
(* math-sll.c: reciprocal and division.                                    *)
(***************************************************************************)
\* for (u = v; u; ((ull)u) >>= 1) s >>= 1;
RECURSIVE InvGuess(_, _)
InvGuess(u, s) == IF u = 0 THEN s ELSE InvGuess(u \div 2, s \div 2)

\* u = sllmul(u, sllsub(CONST_2, sllmul(v, u)))
InvNewton_from_one(v, u) ==
    CASE u \in SLL -> sllmul(u, sllsub(CONST_1, sllmul(v, u)))

InvNewton(v, u) ==
    CASE u \in SLL -> sllmul(u, sllsub(CONST_2, sllmul(v, u)))

\* sllinv of a v made positive: ull s = -1 shifted right once per significant
\* bit of v, then the six Newton steps, the first on s.
InvPositive(v) ==
    InvNewton(v, InvNewton(v, InvNewton(v, InvNewton(v, InvNewton(v, InvNewton(v,
        S64(InvGuess(U64(v), SllMod - 1))))))))

\* return ((sgn) ? sllneg(u) : u)
InvSign(sgn, u) == IF sgn # 0 THEN sllneg(u) ELSE u

sllinv(v) ==
    InvSign(IF v < CONST_0 THEN 1 ELSE 0,
            InvPositive(IF v < CONST_0 THEN sllneg(v) ELSE v))

slldiv(left, right) == sllmul(left, sllinv(right))

(***************************************************************************)
(* math-sll.c: the power series.                                           *)
(***************************************************************************)
\* retval = slladd(CONST_1, sllmul(retval, sllmul(x, c)))
ExpTerm(retval, v, c) ==
    CASE retval \in SLL -> slladd(CONST_1, sllmul(retval, sllmul(v, c)))

\* The eleven assignments to retval, the first innermost.
calc_exp(v) ==
    CASE v \in SLL ->
    ExpTerm(ExpTerm(ExpTerm(ExpTerm(ExpTerm(ExpTerm(
    ExpTerm(ExpTerm(ExpTerm(ExpTerm(ExpTerm(
        0, v, CONST_1_11),
        v, CONST_1_11),
        v, CONST_1_10),
        v, CONST_1_9),
        v, CONST_1_8),
        v, CONST_1_7),
        v, CONST_1_6),
        v, CONST_1_5),
        v, CONST_1_4),
        v, CONST_1_3),
        v, CONST_1_2)

\* retval = sllsub(CONST_1, sllmul(sllmul(x2, retval), c))
CosTerm(x2, retval, c) ==
    CASE retval \in SLL -> sllsub(CONST_1, sllmul(sllmul(x2, retval), c))

\* The six assignments to retval, the first innermost.
CosSeries(x2) ==
    CosTerm(x2, CosTerm(x2, CosTerm(x2, CosTerm(x2, CosTerm(x2, CosTerm(x2,
        CONST_1, CONST_1_132),
        CONST_1_90),
        CONST_1_56),
        CONST_1_30),
        CONST_1_12),
        CONST_1_2)

\* x2 = sllmul(x, x), then the series.
calc_cos(v) ==
    CASE v \in SLL -> CosSeries(sllmul(v, v))

\* retval = sllsub(x, sllmul(sllmul(x2, retval), c))
SinTerm(v, x2, retval, c) ==
    CASE retval \in SLL -> sllsub(v, sllmul(sllmul(x2, retval), c))

\* The six assignments to retval, the first innermost.
SinSeries(v, x2) ==
    SinTerm(v, x2, SinTerm(v, x2, SinTerm(v, x2,
    SinTerm(v, x2, SinTerm(v, x2, SinTerm(v, x2,
        CONST_1, CONST_1_156),
        CONST_1_110),
        CONST_1_72),
        CONST_1_42),
        CONST_1_20),
        CONST_1_6)

\* x2 = sllmul(x, x), then the series.
calc_sin(v) ==
    CASE v \in SLL -> SinSeries(v, sllmul(v, v))

(***************************************************************************)
(* math-sll.c: arc tangent.  The locals of calc_atan are a record.         *)
(***************************************************************************)
\* a = sllmul(x, sllsub(CONST_1, sllmul(x, sllmul(x, CONST_1_3))))
AtanSeries(v) == sllmul(v, sllsub(CONST_1, sllmul(v, sllmul(v, CONST_1_3))))

\* x = slldiv(sllsub(x, t), slladd(CONST_1, sllmul(t, x)))
AtanQuotient(v, t) ==
    CASE t \in SLL -> slldiv(sllsub(v, t), slladd(CONST_1, sllmul(t, v)))

\* t = slldiv(calc_sin(a), calc_cos(a)), then the new x.
AtanResidual(v, a) == AtanQuotient(v, slldiv(calc_sin(a), calc_cos(a)))

\* First iteration: a from x, retval = a.
AtanFirst(v, a) == [x |-> v, a |-> a, retval |-> a]

\* retval = slladd(retval, a)
AtanSum(v, a, retval) == [x |-> v, a |-> a, retval |-> slladd(retval, a)]

\* a from the new x.
AtanNext(v, retval) ==
    CASE v \in SLL -> AtanSum(v, AtanSeries(v), retval)

\* Second and third iteration: t, x, a, and retval plus a.
AtanIteration(l) ==
    CASE l.x \in SLL -> AtanNext(AtanResidual(l.x, l.a), l.retval)

calc_atan(v) == AtanIteration(AtanIteration(AtanFirst(v, AtanSeries(v)))).retval

\* The branch sllatan takes: the two tests of its if / else if.
sllatan_branch(v) ==
    IF v < sllneg(sllneg(CONST_1)) THEN "minus_pi_2"
    ELSE IF v > CONST_1 THEN "plus_pi_2"
    ELSE "direct"

\* retval of the two branches that go on to sllinv.
sllatan_retval(b) == IF b = "minus_pi_2" THEN sllneg(CONST_PI_2) ELSE CONST_PI_2

sllatan(v) ==
    IF sllatan_branch(v) = "direct"
      THEN calc_atan(v)
      ELSE sllsub(sllatan_retval(sllatan_branch(v)), calc_atan(sllinv(v)))

(***************************************************************************)
(* math-sll.c: exponential and logarithm.  The locals of a function are a  *)
(* record; a loop is its test, its body, and the loop run to its exit.     *)
(***************************************************************************)
\* if (i < 0) { i = -i; e = CONST_1_E; }, e = CONST_E otherwise.
ExpSign(i, retval) ==
    IF i < 0
      THEN [i |-> S32(0 - i), e |-> CONST_1_E, retval |-> retval]
      ELSE [i |-> i, e |-> CONST_E, retval |-> retval]

\* retval = calc_exp(sllsub(x, int2sll(i)))
ExpReduced(v, i) == ExpSign(i, calc_exp(sllsub(v, int2sll(i))))

\* sllexp up to its loop: i = sll2int(slladd(x, CONST_1_2)), retval and e.
ExpEntry(v) == ExpReduced(v, sll2int(slladd(v, CONST_1_2)))

\* for (; i; i >>= 1) { if (i & 1) retval = sllmul(retval, e); e = sllmul(e, e); }
ExpBody(l) ==
    [i |-> l.i \div 2,
     e |-> sllmul(l.e, l.e),
     retval |-> IF U32(l.i) % 2 = 1 THEN sllmul(l.retval, l.e) ELSE l.retval]

RECURSIVE ExpLoop(_)
ExpLoop(l) == IF l.i # 0 THEN ExpLoop(ExpBody(l)) ELSE l

sllexp(v) == ExpLoop(ExpEntry(v)).retval

\* while (x < CONST_1_SQRTE) { ln = sllsub(ln, CONST_1); x = sllmul(x, CONST_E); }
LogUpBody(l) == [x |-> sllmul(l.x, CONST_E), ln |-> sllsub(l.ln, CONST_1)]

RECURSIVE LogUpLoop(_)
LogUpLoop(l) == IF l.x < CONST_1_SQRTE THEN LogUpLoop(LogUpBody(l)) ELSE l

\* while (x > CONST_SQRTE) { ln = slladd(ln, CONST_1); x = sllmul(x, CONST_1_E); }
LogDownBody(l) == [x |-> sllmul(l.x, CONST_1_E), ln |-> slladd(l.ln, CONST_1)]

RECURSIVE LogDownLoop(_)
LogDownLoop(l) == IF l.x > CONST_SQRTE THEN LogDownLoop(LogDownBody(l)) ELSE l

\* x1 = sllmul(sllsub(x, CONST_1), sllmul(sllsub(x, CONST_3), CONST_1_2))
LogCorrection(v) == sllmul(sllsub(v, CONST_1), sllmul(sllsub(v, CONST_3), CONST_1_2))

\* ln = sllsub(ln, x1); x = sllmul(x, calc_exp(x1))
LogUpdate(l, x1) ==
    CASE x1 \in SLL -> [x |-> sllmul(l.x, calc_exp(x1)), ln |-> sllsub(l.ln, x1)]

\* First and second iteration: x1, ln and x.
LogIteration(l) ==
    CASE l.x \in SLL -> LogUpdate(l, LogCorrection(l.x))

\* Third iteration: x1 and ln, which is returned.
LogLastIteration(l) ==
    CASE l.x \in SLL -> sllsub(l.ln, LogCorrection(l.x))

\* The three iterations after the scaling.
LogNewton(l) == LogLastIteration(LogIteration(LogIteration(l)))

slllog(v) == LogNewton(LogDownLoop(LogUpLoop([x |-> v, ln |-> 0])))

\* The test with the base zero left to the logarithm.
PowQuick_nonzero_base(v, w) == w = CONST_0 /\ v # CONST_0

\* if (y == CONST_0) return CONST_1;
PowQuick(v, w) == w = CONST_0

(***************************************************************************)
(* math-sll.c: sine, cosine and tangent of an arbitrary x.                 *)
(***************************************************************************)
\* i = sll2int(slladd(sllmul(x, CONST_2_PI), CONST_1_2))
TrigIndex(v) == sll2int(slladd(sllmul(v, CONST_2_PI), CONST_1_2))

\* x = sllsub(x, sllmul(int2sll(i), CONST_PI_2))
TrigReduce(v, i) == sllsub(v, sllmul(int2sll(i), CONST_PI_2))

\* The x the series are called with.
TrigResidual(v) == TrigReduce(v, TrigIndex(v))

\* The quadrant with the C remainder, which has the sign of i.
TrigQuadrant_remainder(i) == IF i < 0 THEN 0 - ((0 - i) % 4) ELSE i % 4

\* switch (i & 3), on the two's complement bits of i
TrigQuadrant(i) == U32(i) % 4

\* The cases of sllcos; default is case 0.
CosDispatch(q, r) ==
    CASE q = 1 -> sllneg(calc_sin(r))
      [] q = 2 -> sllneg(calc_cos(r))
      [] q = 3 -> calc_sin(r)
      [] OTHER -> calc_cos(r)

sllcos(v) == CosDispatch(TrigQuadrant(TrigIndex(v)), TrigResidual(v))

\* The cases of sllsin; default is case 0.
SinDispatch(q, r) ==
    CASE q = 1 -> calc_cos(r)
      [] q = 2 -> sllneg(calc_sin(r))
      [] q = 3 -> sllneg(calc_cos(r))
      [] OTHER -> calc_sin(r)

sllsin(v) == SinDispatch(TrigQuadrant(TrigIndex(v)), TrigResidual(v))

\* The cases of slltan: 0 and 2 (and default), 1 and 3.
TanDispatch_no_negation(q, r) ==
    IF q = 1 \/ q = 3
      THEN slldiv(calc_cos(r), calc_sin(r))
      ELSE slldiv(calc_sin(r), calc_cos(r))

TanDispatch(q, r) ==
    IF q = 1 \/ q = 3
      THEN sllneg(slldiv(calc_cos(r), calc_sin(r)))
      ELSE slldiv(calc_sin(r), calc_cos(r))

slltan(v) == TanDispatch(TrigQuadrant(TrigIndex(v)), TrigResidual(v))

(***************************************************************************)
(* math-sll.c: dbl2sll and sll2dbl.  A double is two words, read through   *)
(* the union as u[0] and u[1]; the code takes u[0] for the word with sign, *)
(* exponent and the top of the mantissa and u[1] for the rest of the       *)
(* mantissa (the "big-endian double" the header assumes on ARM), while in  *)
(* the ull of the same union u[1] is the high word.  The model writes a    *)
(* double as the number u[0] * WordMod + u[1].  In the source the first    *)
(* word holds 1 sign bit, 11 exponent bits and 20 mantissa bits; the model *)
(* keeps the layout with 3 exponent bits and WordBits - 4 mantissa bits,   *)
(* and every shift count and mask of the code is written by what it        *)
(* selects in that layout.  Three exponent bits reach down to 2^-2 only:   *)
(* a smaller sll has no normal double in the model, where the 11 bits of   *)
(* the source cover every sll.                                             *)
(***************************************************************************)
DOUBLE == 0 .. (SllMod - 1)

\* Mantissa bits of the first word (20) and exponent bits (11).
DblMantHiBits == WordBits - 4
DblExpBits == WordBits - 1 - DblMantHiBits
\* 1053: the exponent bias, 1023, plus 30, the place of the leading 1.
DblAlign == (Pow2(DblExpBits - 1) - 1) + (WordBits - 2)
\* 10: the gap between the mantissa bits of the first word and the leading 1.
DblShift == WordBits - 2 - DblMantHiBits
\* 0x80000000 and 0x40000000
DblSign == Pow2(WordBits - 1)
DblLead == Pow2(WordBits - 2)

\* exp = (in.u[0] >> 20) & 0x7ff
DblExponent(u0) == (u0 \div Pow2(DblMantHiBits)) % Pow2(DblExpBits)

\* The same without the leading 1 that IEEE leaves out.
DblUnpack_no_lead(u0, u1) ==
    ((u0 % Pow2(DblMantHiBits)) * Pow2(DblShift)
        + (u1 \div Pow2(WordBits - DblShift))) * WordMod
    + ((u1 * Pow2(DblShift)) % WordMod)

\* retval.u[1] = 0x40000000 | ((in.u[0] << 10) & 0x3ffffc00)
\*                          | ((in.u[1] >> 22) & 0x000003ff)
\* retval.u[0] = in.u[1] << 10
DblUnpack(u0, u1) ==
    (DblLead + (u0 % Pow2(DblMantHiBits)) * Pow2(DblShift)
             + (u1 \div Pow2(WordBits - DblShift))) * WordMod
    + ((u1 * Pow2(DblShift)) % WordMod)

\* retval.ull >>= count.  A count outside 0 .. 63 is undefined: the build
\* shifts by the count modulo the width or clears the value.
DblShiftRight(u, count) ==
    IF 0 <= count /\ count < 2 * WordBits
      THEN {u \div Pow2(count)}
      ELSE {0, u \div Pow2(count % (2 * WordBits))}

\* if (in.u[0] & 0x80000000) retval.sll = -retval.sll
DblSigned(u0, u) == IF u0 >= DblSign THEN S64(0 - u) ELSE S64(u)

\* The values dbl2sll(d) can return.
dbl2sll(d) ==
    IF DblExponent(HI(d)) = 0
      THEN {0}
      ELSE {DblSigned(HI(d), u) :
              u \in DblShiftRight(DblUnpack(HI(d), LO(d)), DblAlign - DblExponent(HI(d)))}

\* for (exp = 1053; in.ull && (in.u[1] & 0x80000000) == 0; exp--) in.ull <<= 1
RECURSIVE DblNormalize(_, _)
DblNormalize(u, exp) ==
    IF u # 0 /\ u < SllMod \div 2
      THEN DblNormalize((2 * u) % SllMod, exp - 1)
      ELSE <<u, exp>>

\* retval.u[0] = in.u[1] | flag | (exp << 20) ; retval.u[1] = in.u[0]
DblPackWords(flag, m, exp) ==
    ((HI(m) + flag + exp * Pow2(DblMantHiBits)) % WordMod) * WordMod + LO(m)

\* The same without exp++.
DblPack_no_increment(flag, norm) ==
    DblPackWords(flag, ((2 * norm[1]) % SllMod) \div Pow2(DblExpBits + 1), norm[2])

\* in.ull <<= 1 ; exp++ ; in.ull >>= 12
DblPack(flag, norm) ==
    DblPackWords(flag, ((2 * norm[1]) % SllMod) \div Pow2(DblExpBits + 1), norm[2] + 1)

sll2dbl(s) ==
    IF s = 0
      THEN 0
      ELSE DblPack(IF s < 1 THEN DblSign ELSE 0,
                   DblNormalize(U64(IF s < 1 THEN sllneg(s) ELSE s), DblAlign))

(***************************************************************************)
(* The library as a state machine.  The library keeps no state of its own: *)
(* the state is the call in progress.  A caller enters a function with     *)
(* arguments of its choice, the function runs (a function without          *)
(* data-dependent loops in one step, a loop one iteration per step) and    *)
(* leaves its result in ret; Return hands control back to the caller.      *)
(***************************************************************************)
VARIABLES
    fn,      \* the function called, "none" between calls
    pc,      \* "idle", a position inside fn, or "done"
    x,       \* first argument (sll)
    y,       \* second argument (sll), 0 if fn takes none
    n,       \* the int argument, 0 if fn takes none
    loc,     \* the locals of the function that is running
    called,  \* the library functions entered during this call
    ret      \* the value returned, meaningful when pc = "done"

vars == <<fn, pc, x, y, n, loc, called, ret>>

NoLocals == [x |-> 0, n |-> 0, ln |-> 0, i |-> 0, e |-> 0, retval |-> 0]

Init ==
    /\ fn = "none"
    /\ pc = "idle"
    /\ x = 0
    /\ y = 0
    /\ n = 0
    /\ loc = NoLocals
    /\ called = {}
    /\ ret = 0

\* A call of a function that runs in one step (the caller is at "idle").
Enter(f, a, b, k, r) ==
    /\ fn' = f
    /\ pc' = "done"
    /\ x' = a
    /\ y' = b
    /\ n' = k
    /\ loc' = NoLocals
    /\ called' = {f}
    /\ ret' = r

Return ==
    /\ pc = "done"
    /\ fn' = "none"
    /\ pc' = "idle"
    /\ x' = 0
    /\ y' = 0
    /\ n' = 0
    /\ loc' = NoLocals
    /\ called' = {}
    /\ ret' = 0

\* The shift counts the library documents: 0 <= n <= 31.
ShiftCounts == 0 .. (WordBits - 1)

Call_sllmul ==
    /\ pc = "idle"
    /\ \E a \in SLL, b \in SLL : Enter("sllmul", a, b, 0, sllmul(a, b))
Call_sllmul_arm ==
    /\ pc = "idle"
    /\ \E a \in SLL, b \in SLL : Enter("sllmul_arm", a, b, 0, sllmul_arm(a, b))
Call_sllmul_i386 ==
    /\ pc = "idle"
    /\ \E a \in SLL, b \in SLL : Enter("sllmul_i386", a, b, 0, sllmul_i386(a, b))
Call_h_sllmul2 ==
    /\ pc = "idle"
    /\ \E a \in SLL : Enter("h_sllmul2", a, 0, 0, h_sllmul2(a))
Call_h_sllmul4 ==
    /\ pc = "idle"
    /\ \E a \in SLL : Enter("h_sllmul4", a, 0, 0, h_sllmul4(a))
Call_h_sllmul2n ==
    /\ pc = "idle"
    /\ \E a \in SLL, k \in ShiftCounts : Enter("h_sllmul2n", a, 0, k, h_sllmul2n(a, k))
Call_h_sllmul2n_arm ==
    /\ pc = "idle"
    /\ \E a \in SLL, k \in ShiftCounts : Enter("h_sllmul2n_arm", a, 0, k, h_sllmul2n_arm(a, k))

NextMul ==
    \/ Call_sllmul
    \/ Call_sllmul_arm
    \/ Call_sllmul_i386
    \/ Call_h_sllmul2
    \/ Call_h_sllmul4
    \/ Call_h_sllmul2n
    \/ Call_h_sllmul2n_arm
    \/ Return

\* The multiplications and the multiplying shifts.
SpecMul == Init /\ [][NextMul]_vars

(***************************************************************************)
(* Reference values of the multiplication claims.                          *)
(***************************************************************************)
\* The middle double word of the signed product: floor(x * y / 2^32) mod 2^64.
MidProduct(a, b) == S64((a * b) \div WordMod)

\* (hi_x*hi_y << 32) + (hi_x*lo_y + lo_x*hi_y) + ((lo_x*lo_y) >> 32),
\* hi signed, lo unsigned.
Decomposition(a, b) ==
    LET hi_x == a \div WordMod
        lo_x == a % WordMod
        hi_y == b \div WordMod
        lo_y == b % WordMod
    IN  S64(hi_x * hi_y * WordMod + (hi_x * lo_y + lo_x * hi_y) + ((lo_x * lo_y) \div WordMod))

Returned(f) == pc = "done" /\ fn = f

\* C1: the header's sllmul (ARM and i386 assembly) returns the middle 64 bits
\* of the signed 128-bit product, which is the signed hi/lo decomposition.
C1_HeaderMulIsMiddleOfProduct ==
    (Returned("sllmul_arm") \/ Returned("sllmul_i386"))
        => /\ ret = MidProduct(x, y)
           /\ ret = Decomposition(x, y)

\* Both operands negative with a fraction: both sign corrections have acted.
C1_Witness ==
    /\ Returned("sllmul_arm")
    /\ x < 0
    /\ y < 0
    /\ sllfrac(x) # 0
    /\ sllfrac(y) # 0
    /\ ret = MidProduct(x, y)

\* C2: the sllmul of math-sll.c returns the same value as the header's signed
\* decomposition, for every pair of operands.
C2_CMulEqualsHeaderMul ==
    Returned("sllmul") => ret = sllmul_arm(x, y) /\ ret = Decomposition(x, y)

\* C3: multiplication is exact on integers whose product fits an int.
C3_MulExactOnIntegers ==
    ( /\ Returned("sllmul") \/ Returned("sllmul_arm") \/ Returned("sllmul_i386")
      /\ sllfrac(x) = 0
      /\ sllfrac(y) = 0
      /\ (sll2int(x) * sll2int(y)) \in INT )
        => ret = int2sll(sll2int(x) * sll2int(y))

\* A negative integer times a positive one, through the sign-and-magnitude path.
C3_Witness ==
    /\ Returned("sllmul")
    /\ sllfrac(x) = 0
    /\ sllfrac(y) = 0
    /\ sll2int(x) < 0 - 1
    /\ sll2int(y) > 1
    /\ (sll2int(x) * sll2int(y)) \in INT
    /\ ret = int2sll(sll2int(x) * sll2int(y))

\* The Fixed value the claim writes int2sll(1 << n).
FixedPow2(k) == int2sll(S32(Pow2(k)))

ShiftAgreesWithMul(k) ==
    /\ ret = sllmul_arm(x, FixedPow2(k))
    /\ ret = sllmul_i386(x, FixedPow2(k))
    /\ ret = sllmul(x, FixedPow2(k))

\* C4 as stated: for every n in 0..31, sllmul2n(x, n) = sllmul(x, int2sll(1 << n)),
\* and sllmul2, sllmul4 equal the multiplication by CONST_2, CONST_4.
C4_ShiftEqualsMul_AsStated ==
    /\ (Returned("h_sllmul2n") \/ Returned("h_sllmul2n_arm")) => ShiftAgreesWithMul(n)
    /\ Returned("h_sllmul2") => ret = sllmul_arm(x, CONST_2)
    /\ Returned("h_sllmul4") => ret = sllmul_arm(x, CONST_4)

\* C4 amended: the same for n in 0..30, where 2^n is a Fixed value.
C4_ShiftEqualsMul ==
    /\ ( /\ Returned("h_sllmul2n") \/ Returned("h_sllmul2n_arm")
         /\ n <= WordBits - 2 )
           => ShiftAgreesWithMul(n)
    /\ Returned("h_sllmul2") => ret = sllmul_arm(x, CONST_2) /\ ret = sllmul(x, CONST_2)
    /\ Returned("h_sllmul4") => ret = sllmul_arm(x, CONST_4) /\ ret = sllmul(x, CONST_4)

\* A negative value with a fraction shifted by the largest count that is a
\* Fixed power of two; the shift moves bits across the word boundary.
C4_Witness ==
    /\ Returned("h_sllmul2n_arm")
    /\ n = WordBits - 2
    /\ x < 0
    /\ sllfrac(x) >= WordMod \div 2
    /\ ret = sllmul_arm(x, FixedPow2(n))

(***************************************************************************)
(* math-sll.c: sllmul2n and slldiv2n, one loop iteration per step.  The    *)
(* value is in r1:r0, the count in the register of n.                      *)
(***************************************************************************)
\* mov r1, r1, lsl #1 ; movs r0, r0, lsl #1 ; orrcs r1, r1, #1
lsl1(v) ==
    LET r0 == LO(U64(v))
        r1 == HI(U64(v))
        r1a == (r1 * 2) % WordMod
        r0a == (r0 * 2) % WordMod
        carry == (r0 * 2) \div WordMod
        \* bit 0 of r1a is clear, so orr adds the carry
        r1b == r1a + carry
    IN  S64(r1b * WordMod + r0a)

\* movs r1, r1, asr #1 ; mov r0, r0, rrx
asr1(v) ==
    LET r0 == LO(U64(v))
        r1 == HI(U64(v))
        r1a == U32(S32(r1) \div 2)
        carry == r1 % 2
        r0a == carry * (WordMod \div 2) + (r0 \div 2)
    IN  S64(r1a * WordMod + r0a)

\* Entry of a function that loops: the locals are set, the loop is entered.
Begin(f, at, a, b, k, l) ==
    /\ fn' = f
    /\ pc' = at
    /\ x' = a
    /\ y' = b
    /\ n' = k
    /\ loc' = l
    /\ called' = {f}
    /\ ret' = 0

\* and %1, %1, #0x1f
Call_sllmul2n ==
    /\ pc = "idle"
    /\ \E a \in SLL, k \in ShiftCounts :
         Begin("sllmul2n", "mul2n_loop", a, 0, k, [NoLocals EXCEPT !.x = a, !.n = U32(k) % 32])

Call_slldiv2n ==
    /\ pc = "idle"
    /\ \E a \in SLL, k \in ShiftCounts :
         Begin("slldiv2n", "div2n_loop", a, 0, k, [NoLocals EXCEPT !.x = a, !.n = U32(k) % 32])

\* One pass of "1: <shift> ; subs %1, %1, #1 ; bne 1b", then "return x".
ShiftLoop(at, shifted) ==
    LET count == U32(loc.n - 1)
    IN  /\ pc = at
        /\ loc' = [loc EXCEPT !.x = shifted, !.n = count]
        /\ IF count # 0
             THEN pc' = at /\ ret' = ret
             ELSE pc' = "done" /\ ret' = shifted
        /\ UNCHANGED <<fn, x, y, n, called>>

Loop_sllmul2n == ShiftLoop("mul2n_loop", lsl1(loc.x))
Loop_slldiv2n == ShiftLoop("div2n_loop", asr1(loc.x))

NextShift ==
    \/ Call_sllmul2n
    \/ Loop_sllmul2n
    \/ Call_slldiv2n
    \/ Loop_slldiv2n
    \/ Return

\* The loop-based shifts of math-sll.c.
SpecShift == Init /\ [][NextShift]_vars

\* C5: for 0 <= n <= 31 the loop-based sllmul2n returns x * 2^n mod 2^64 and
\* slldiv2n returns floor(x / 2^n); for n = 0 both return x unchanged.
C5_LoopShiftsByN ==
    /\ Returned("sllmul2n") => ret = S64(x * Pow2(n))
    /\ Returned("slldiv2n") => ret = x \div Pow2(n)

(***************************************************************************)
(* math-sll.h: floor and ceiling.                                          *)
(***************************************************************************)
Call_sllfloor ==
    /\ pc = "idle"
    /\ \E a \in SLL : Enter("sllfloor", a, 0, 0, sllfloor(a))

Call_sllceil ==
    /\ pc = "idle"
    /\ \E a \in SLL : Enter("sllceil", a, 0, 0, sllceil(a))

NextRound ==
    \/ Call_sllfloor
    \/ Call_sllceil
    \/ Return

SpecRound == Init /\ [][NextRound]_vars

\* -1.5 as a Fixed value.
MinusOneAndAHalf == 0 - (CONST_1 + CONST_1_2)

\* C6: sllfloor(x) is the largest integer-valued Fixed not greater than x:
\* sllfloor(x) <= x < sllfloor(x) + 1.0 (as numbers), with a zero fraction;
\* sllfloor(-1.5) = -2.0.
C6_FloorIsLargestIntegerBelow ==
    Returned("sllfloor") =>
        /\ ret <= x
        /\ x < ret + CONST_1
        /\ sllfrac(ret) = 0
        /\ (x = MinusOneAndAHalf => ret = 0 - CONST_2)

C6_Witness ==
    /\ Returned("sllfloor")
    /\ x = MinusOneAndAHalf
    /\ ret = 0 - CONST_2

\* The largest integer-valued Fixed: integer part 2^31 - 1, fraction 0.
MaxInteger == int2sll((WordMod \div 2) - 1)

CeilIsSmallestIntegerAbove ==
    /\ ret >= x
    /\ ret - x < CONST_1
    /\ sllfrac(ret) = 0
    /\ (x = MinusOneAndAHalf => ret = 0 - CONST_1)

\* C7 as stated: for every Fixed x, also with integer part 2^31 - 1 and a
\* non-zero fraction, sllceil(x) is the smallest integer-valued Fixed not
\* smaller than x.
C7_CeilIsSmallestIntegerAbove_AsStated ==
    Returned("sllceil") => CeilIsSmallestIntegerAbove

\* C7 amended: the same for every x not greater than the largest
\* integer-valued Fixed.
C7_CeilIsSmallestIntegerAbove ==
    (Returned("sllceil") /\ x <= MaxInteger) => CeilIsSmallestIntegerAbove

\* A negative value with a fraction: the masked value is below x, one is added.
C7_Witness ==
    /\ Returned("sllceil")
    /\ x = MinusOneAndAHalf
    /\ ret = 0 - CONST_1

(***************************************************************************)
(* math-sll.c: sllsqrt, one iteration of a scaling loop per step.          *)
(***************************************************************************)
\* xn = sllsub(xn, sllmul(CONST_1_2, sllsub(xn, slldiv(x, xn))))
SqrtNewton(v, xn) ==
    CASE xn \in SLL -> sllsub(xn, sllmul(CONST_1_2, sllsub(xn, slldiv(v, xn))))

\* The same with the shortcut returning x where the code returns n.
SqrtResult_returns_argument(v, scale) ==
    IF v = CONST_1
      THEN v
      ELSE sllmul(scale, SqrtNewton(v, SqrtNewton(v, SqrtNewton(v, SqrtNewton(v, CONST_1)))))

\* What sllsqrt returns once x is scaled: n if x is 1, else n times the root.
SqrtResult(v, scale) ==
    \* xn = CONST_1, then the four iterations
    IF v = CONST_1
      THEN scale
      ELSE sllmul(scale, SqrtNewton(v, SqrtNewton(v, SqrtNewton(v, SqrtNewton(v, CONST_1)))))

\* The quick solution: if (x == CONST_0 || x == CONST_1) return x;
SqrtQuick(v) == v = CONST_0 \/ v = CONST_1

Call_sllsqrt ==
    /\ pc = "idle"
    /\ \E a \in SLL :
         IF SqrtQuick(a)
           THEN Enter("sllsqrt", a, 0, 0, a)
           ELSE Begin("sllsqrt", "sqrt_scale_down", a, 0, 0,
                      [NoLocals EXCEPT !.x = a, !.n = CONST_1])

\* while (x >= CONST_2) { x = sllmul(x, CONST_1_4); n = sllmul(n, CONST_2); }
Loop_sqrt_scale_down ==
    /\ pc = "sqrt_scale_down"
    /\ IF loc.x >= CONST_2
         THEN /\ loc' = [loc EXCEPT !.x = sllmul(loc.x, CONST_1_4),
                                    !.n = sllmul(loc.n, CONST_2)]
              /\ pc' = pc
         ELSE /\ loc' = loc
              /\ pc' = "sqrt_scale_up"
    /\ UNCHANGED <<fn, x, y, n, called, ret>>

\* while (x < CONST_1_2) { x = sllmul(x, CONST_4); n = sllmul(n, CONST_1_2); }
Loop_sqrt_scale_up ==
    /\ pc = "sqrt_scale_up"
    /\ IF loc.x < CONST_1_2
         THEN /\ loc' = [loc EXCEPT !.x = sllmul(loc.x, CONST_4),
                                    !.n = sllmul(loc.n, CONST_1_2)]
              /\ pc' = pc
         ELSE /\ loc' = loc
              /\ pc' = "sqrt_newton"
    /\ UNCHANGED <<fn, x, y, n, called, ret>>

Finish_sllsqrt ==
    /\ pc = "sqrt_newton"
    /\ pc' = "done"
    /\ ret' = SqrtResult(loc.x, loc.n)
    /\ UNCHANGED <<fn, x, y, n, loc, called>>

NextSqrt ==
    \/ Call_sllsqrt
    \/ Loop_sqrt_scale_down
    \/ Loop_sqrt_scale_up
    \/ Finish_sllsqrt
    \/ Return

SpecSqrt == Init /\ [][NextSqrt]_vars

\* The second scaling loop can never be left: its condition holds and its
\* body leaves x as it is.
SqrtSpins ==
    /\ fn = "sllsqrt"
    /\ pc = "sqrt_scale_up"
    /\ loc.x < CONST_1_2
    /\ sllmul(loc.x, CONST_4) = loc.x

\* C8: for x <= 0 or x = CONST_1 the call of sllsqrt terminates and returns
\* its argument.
C8_SqrtReturnsArgument ==
    (fn = "sllsqrt" /\ (x <= CONST_0 \/ x = CONST_1)) =>
        /\ pc = "done" => ret = x
        /\ ~SqrtSpins

(***************************************************************************)
(* math-sll.c: sllatan.                                                    *)
(***************************************************************************)
Call_sllatan ==
    /\ pc = "idle"
    /\ \E a \in SLL :
         /\ fn' = "sllatan"
         /\ pc' = "done"
         /\ x' = a
         /\ y' = 0
         /\ n' = 0
         /\ loc' = NoLocals
         /\ called' = IF sllatan_branch(a) = "direct"
                        THEN {"sllatan", "calc_atan"}
                        ELSE {"sllatan", "sllinv", "calc_atan"}
         /\ ret' = sllatan(a)

NextAtan ==
    \/ Call_sllatan
    \/ Return

SpecAtan == Init /\ [][NextAtan]_vars

\* C10: sllatan selects its branch by magnitude: calc_atan(x) without sllinv
\* for -1 <= x <= 1, pi/2 - calc_atan(1/x) for x > 1 and
\* -pi/2 - calc_atan(1/x) for x < -1.
C10_AtanBranchByMagnitude ==
    Returned("sllatan") =>
        /\ (sllneg(CONST_1) <= x /\ x <= CONST_1) =>
               (ret = calc_atan(x) /\ "sllinv" \notin called)
        /\ x > CONST_1 => ret = sllsub(CONST_PI_2, calc_atan(sllinv(x)))
        /\ x < sllneg(CONST_1) => ret = sllsub(sllneg(CONST_PI_2), calc_atan(sllinv(x)))

(***************************************************************************)
(* math-sll.c: sllexp, slllog and sllpow, one loop iteration per step.     *)
(* sllpow enters slllog and then sllexp; called records the two entries.   *)
(***************************************************************************)
\* The exponents sllpow is called with.
PowExponents ==
    {CONST_0, 1, 0 - 1, CONST_1_2, CONST_1, 0 - CONST_1, CONST_2, 0 - (SllMod \div 2)}

\* The locals of sllexp when its loop is reached.
ExpFrame(l) == [NoLocals EXCEPT !.i = l.i, !.e = l.e, !.retval = l.retval]

ExpLocals(v) == ExpFrame(ExpEntry(v))

Call_sllexp ==
    /\ pc = "idle"
    /\ \E a \in SLL : Begin("sllexp", "exp_loop", a, 0, 0, ExpLocals(a))

Call_slllog ==
    /\ pc = "idle"
    /\ \E a \in SLL : Begin("slllog", "log_scale_up", a, 0, 0, [NoLocals EXCEPT !.x = a])

Call_sllpow ==
    /\ pc = "idle"
    /\ \E a \in SLL, b \in PowExponents :
         IF PowQuick(a, b)
           THEN Enter("sllpow", a, b, 0, CONST_1)
           ELSE /\ fn' = "sllpow"
                /\ pc' = "log_scale_up"
                /\ x' = a
                /\ y' = b
                /\ n' = 0
                /\ loc' = [NoLocals EXCEPT !.x = a]
                /\ called' = {"sllpow", "slllog"}
                /\ ret' = 0

Loop_log_scale_up ==
    /\ pc = "log_scale_up"
    /\ IF loc.x < CONST_1_SQRTE
         THEN /\ loc' = [loc EXCEPT !.x = LogUpBody(loc).x, !.ln = LogUpBody(loc).ln]
              /\ pc' = pc
         ELSE /\ loc' = loc
              /\ pc' = "log_scale_down"
    /\ UNCHANGED <<fn, x, y, n, called, ret>>

Loop_log_scale_down ==
    /\ pc = "log_scale_down"
    /\ IF loc.x > CONST_SQRTE
         THEN /\ loc' = [loc EXCEPT !.x = LogDownBody(loc).x, !.ln = LogDownBody(loc).ln]
              /\ pc' = pc
         ELSE /\ loc' = loc
              /\ pc' = "log_newton"
    /\ UNCHANGED <<fn, x, y, n, called, ret>>

\* slllog returns ln: to its caller, or to sllpow, which goes on to sllexp.
Finish_slllog ==
    /\ pc = "log_newton"
    /\ pc' = IF fn = "sllpow" THEN "pow_exp" ELSE "done"
    /\ ret' = LogNewton(loc)
    /\ UNCHANGED <<fn, x, y, n, loc, called>>

\* sllpow: return sllexp(sllmul(y, slllog(x))), with the value slllog returned.
Call_sllexp_of_sllpow ==
    /\ pc = "pow_exp"
    /\ pc' = "exp_loop"
    /\ loc' = ExpLocals(sllmul(y, ret))
    /\ called' = called \cup {"sllexp"}
    /\ UNCHANGED <<fn, x, y, n, ret>>

Loop_sllexp ==
    /\ pc = "exp_loop"
    /\ IF loc.i # 0
         THEN /\ loc' = [loc EXCEPT !.i = ExpBody(loc).i, !.e = ExpBody(loc).e,
                                    !.retval = ExpBody(loc).retval]
              /\ pc' = pc
              /\ ret' = ret
         ELSE /\ loc' = loc
              /\ pc' = "done"
              /\ ret' = loc.retval
    /\ UNCHANGED <<fn, x, y, n, called>>

NextPow ==
    \/ Call_sllexp
    \/ Call_slllog
    \/ Call_sllpow
    \/ Loop_log_scale_up
    \/ Loop_log_scale_down
    \/ Finish_slllog
    \/ Call_sllexp_of_sllpow
    \/ Loop_sllexp
    \/ Return

SpecPow == Init /\ [][NextPow]_vars

\* C9: sllpow(x, CONST_0) returns CONST_1 for every x, at once and without
\* entering slllog or sllexp; for y # 0 what it returns is
\* sllexp(sllmul(y, slllog(x))).
C9_PowZeroIsOne ==
    /\ (fn = "sllpow" /\ y = CONST_0) =>
           (pc = "done" /\ ret = CONST_1 /\ called = {"sllpow"})
    /\ (Returned("sllpow") /\ y # CONST_0) =>
           LET ln == slllog(x)
               product == sllmul(y, ln)
           IN  /\ ln \in SLL
               /\ product \in SLL
               /\ ret = sllexp(product)
               /\ called = {"sllpow", "slllog", "sllexp"}

\* x = 0 and a negative x with exponent 0; a call with y # 0 that has returned.
C9_Witness ==
    /\ Returned("sllpow")
    /\ y = CONST_0
    /\ x < CONST_0
    /\ ret = CONST_1

(***************************************************************************)
(* math-sll.c: sllcos, sllsin and slltan.  Each runs in one step; i and    *)
(* the reduced x are the locals it ends with.                              *)
(***************************************************************************)
TrigLocals(v) == [NoLocals EXCEPT !.i = TrigIndex(v), !.x = TrigResidual(v)]

EnterTrig(f, a, r) ==
    /\ fn' = f
    /\ pc' = "done"
    /\ x' = a
    /\ y' = 0
    /\ n' = 0
    /\ loc' = TrigLocals(a)
    /\ called' = {f}
    /\ ret' = r

Call_sllcos ==
    /\ pc = "idle"
    /\ \E a \in SLL : EnterTrig("sllcos", a, sllcos(a))

Call_sllsin ==
    /\ pc = "idle"
    /\ \E a \in SLL : EnterTrig("sllsin", a, sllsin(a))

Call_slltan ==
    /\ pc = "idle"
    /\ \E a \in SLL : EnterTrig("slltan", a, slltan(a))

NextTrig ==
    \/ Call_sllcos
    \/ Call_sllsin
    \/ Call_slltan
    \/ Return

SpecTrig == Init /\ [][NextTrig]_vars

TrigReturned == Returned("sllcos") \/ Returned("sllsin") \/ Returned("slltan")

\* C11: the x that sllsin, sllcos and slltan pass to calc_sin and calc_cos
\* lies in the interval of the series, -CONST_PI_4 <= x <= CONST_PI_4, for
\* every argument.
C11_ResidualInSeriesInterval ==
    TrigReturned => (sllneg(CONST_PI_4) <= loc.x /\ loc.x <= CONST_PI_4)

\* C12: with q = i mod 4 in 0 .. 3, sllcos returns calc_cos, -calc_sin,
\* -calc_cos, calc_sin of the reduced x and sllsin returns calc_sin, calc_cos,
\* -calc_sin, -calc_cos, for negative i as for positive i.
C12_QuadrantDispatch ==
    /\ Returned("sllcos") =>
         ret = <<calc_cos(loc.x), sllneg(calc_sin(loc.x)),
                 sllneg(calc_cos(loc.x)), calc_sin(loc.x)>>[(loc.i % 4) + 1]
    /\ Returned("sllsin") =>
         ret = <<calc_sin(loc.x), calc_cos(loc.x),
                 sllneg(calc_sin(loc.x)), sllneg(calc_cos(loc.x))>>[(loc.i % 4) + 1]

\* i = -1: quadrant 3, where the two dispatches differ from case 0.
C12_Witness ==
    /\ Returned("sllcos")
    /\ loc.i = 0 - 1
    /\ ret = calc_sin(loc.x)
    /\ ret # calc_cos(loc.x)

(***************************************************************************)
(* The reciprocal, sllinv.  The frame keeps sgn in loc.i, the argument     *)
(* after the sign has been taken off in loc.x, and the initial             *)
(* approximation s, an unsigned word pair, in loc.e.                       *)
(***************************************************************************)
InvLocals(v) ==
    [NoLocals EXCEPT !.i = IF v < CONST_0 THEN 1 ELSE 0,
                     !.x = IF v < CONST_0 THEN sllneg(v) ELSE v,
                     !.e = InvGuess(U64(IF v < CONST_0 THEN sllneg(v) ELSE v),
                                    SllMod - 1)]

Call_sllinv ==
    /\ pc = "idle"
    /\ \E a \in SLL :
         /\ fn' = "sllinv"
         /\ pc' = "done"
         /\ x' = a
         /\ y' = 0
         /\ n' = 0
         /\ loc' = InvLocals(a)
         /\ called' = {"sllinv"}
         /\ ret' = sllinv(a)

NextInv ==
    \/ Call_sllinv
    \/ Return

SpecInv == Init /\ [][NextInv]_vars

\* C13: for every v > 0 the initial approximation s of sllinv, an all-ones
\* word pair shifted right once per significant bit of v, is at least the
\* reciprocal of v: s * v >= 2^(2 * WordBits), the product of two raw values
\* that stands for 1.
C13_GuessIsOverestimate ==
    (Returned("sllinv") /\ x > CONST_0) => loc.e * x >= SllMod

\* 2^-28 in raw units: the last eighth of the fraction's bits.
InvLawTolerance == Pow2(WordBits \div 8)

InvLawMagnitude == IF x < 0 THEN 0 - x ELSE x

InvLawError == sllmul(x, ret) - CONST_1

\* C14: for every nonzero x, raw 1 and the largest integer parts included,
\* sllmul(x, sllinv(x)) differs from CONST_1 by at most 2^-28.
C14_InverseLaw ==
    (Returned("sllinv") /\ x # CONST_0) =>
        (0 - InvLawTolerance <= InvLawError /\ InvLawError <= InvLawTolerance)

\* C14 as amended: the same, for the x whose raw magnitude is at least 3 and
\* whose magnitude is below 2^-28 * 2^32 = 16 (below InvLawTolerance units).
C14_InverseLawInRange ==
    (Returned("sllinv") /\ 3 <= InvLawMagnitude
                        /\ InvLawMagnitude < InvLawTolerance * WordMod) =>
        (0 - InvLawTolerance <= InvLawError /\ InvLawError <= InvLawTolerance)

\* A negative argument in the range, whose reciprocal is not a power of two.
C14_Witness ==
    /\ Returned("sllinv")
    /\ x = 0 - 3
    /\ ret < 0
    /\ InvLawError = 0

\* The divisors of the Horner form of e^x, innermost first.
ExpCoefficients ==
    <<CONST_1_11, CONST_1_10, CONST_1_9, CONST_1_8, CONST_1_7, CONST_1_6,
      CONST_1_5, CONST_1_4, CONST_1_3, CONST_1_2, CONST_1>>

\* 1 + x * (1 + (x / 2) * (1 + (x / 3) * ( ... (1 + x / 11)))), with the
\* multiplications and additions of the library.
RECURSIVE ExpHorner(_, _, _)
ExpHorner(v, k, r) ==
    IF k > Len(ExpCoefficients) \/ r \notin SLL
      THEN r
      ELSE ExpHorner(v, k + 1, slladd(CONST_1, sllmul(r, sllmul(v, ExpCoefficients[k]))))

\* C15: for -1/2 <= x <= 1/2 calc_exp(x) is the eleven-term Horner form of
\* e^x, 1 + x * (1 + (x / 2) * ( ... (1 + x / 11))).  sllexp passes its
\* argument to calc_exp unchanged when i = sll2int(x + 1/2) is 0, and the
\* result is in retval when the scaling loop is reached.
C15_ExpIsFullHorner ==
    (fn = "sllexp" /\ pc = "exp_loop" /\ sll2int(slladd(x, CONST_1_2)) = 0) =>
        loc.retval = ExpHorner(x, 1, CONST_1)

\* The first scaling loop of slllog can never be left: its condition holds
\* and its body leaves x as it is (only ln changes).
LogSpins ==
    /\ pc = "log_scale_up"
    /\ loc.x < CONST_1_SQRTE
    /\ LogUpBody(loc).x = loc.x

\* C16: for every x <= 0, x = 0 in particular, slllog(x) terminates and
\* returns a value, and so does sllpow(x, y) with y # 0: neither reaches a
\* loop it cannot leave.
C16_LogTerminatesOutsideDomain ==
    ((fn = "slllog" \/ (fn = "sllpow" /\ y # CONST_0)) /\ x <= CONST_0) => ~LogSpins

\* The scaling loop of sllexp can never be left: i is not 0 and the shift
\* leaves it as it is.
ExpSpins ==
    /\ pc = "exp_loop"
    /\ loc.i # 0
    /\ ExpBody(loc).i = loc.i

\* C18: sllexp terminates for every x, also where the integer part i of
\* x + 1/2 is the least int: after the sign flip the loop variable is not
\* negative and the loop is left once its bits are used up.
C18_ExpLoopTerminates ==
    (fn = "sllexp" /\ pc = "exp_loop") => (loc.i >= 0 /\ ~ExpSpins)

\* The values slltan, sllsin, sllcos and slldiv negate on the way: the two
\* series of the reduced x, their reciprocals and their quotients.
TanOperands(r) ==
    {calc_sin(r), calc_cos(r), sllinv(calc_sin(r)), sllinv(calc_cos(r)),
     slldiv(calc_sin(r), calc_cos(r)), slldiv(calc_cos(r), calc_sin(r))}

\* A negation of the least value, -2^63 at 64 bits, occurs.
TanNegatesLeast == (0 - (SllMod \div 2)) \in TanOperands(loc.x)

\* C19: for every x, other than where the least value is negated, slltan(x)
\* is slldiv(sllsin(x), sllcos(x)).
C19_TanIsQuotient ==
    (Returned("slltan") /\ ~TanNegatesLeast) =>
        ret = slldiv(sllsin(x), sllcos(x))

\* C19 as amended: the same, for the x where sllcos(x) is not 0.
C19_TanIsQuotientOffPoles ==
    (Returned("slltan") /\ ~TanNegatesLeast /\ sllcos(x) # CONST_0) =>
        ret = slldiv(sllsin(x), sllcos(x))

\* An odd quadrant: slltan negates the quotient of cosine by sine, the
\* full-range functions hand slldiv a negated divisor.
C19_Witness ==
    /\ Returned("slltan")
    /\ ~TanNegatesLeast
    /\ TrigQuadrant(loc.i) = 1
    /\ sllcos(x) = sllneg(calc_sin(loc.x))
    /\ sllcos(x) # CONST_0
    /\ ret # CONST_0
    /\ ret = slldiv(sllsin(x), sllcos(x))

(***************************************************************************)
(* math-sll.c: umul, on every pair of unsigned word pairs.                 *)
(***************************************************************************)
Call_umul ==
    /\ pc = "idle"
    /\ \E a \in 0 .. (SllMod - 1), b \in 0 .. (SllMod - 1) :
         Enter("umul", a, b, 0, umul(a, b))

NextUmul ==
    \/ Call_umul
    \/ Return

SpecUmul == Init /\ [][NextUmul]_vars

\* C20: the accumulation of the four partial products in umul loses no carry
\* and counts none twice: for every pair of unsigned word pairs the result is
\* floor(left * right / 2^32) mod 2^64 (words of WordBits bits in the model).
C20_UmulIsShiftedProduct ==
    Returned("umul") => ret = ((x * y) \div WordMod) % SllMod

\* Both additions into the low word carry: HI(D*B) + LO(C*B), then + LO(D*A).
C20_Witness ==
    /\ Returned("umul")
    /\ HI(LO(x) * LO(y)) + LO(HI(x) * LO(y)) >= WordMod
    /\ ((HI(LO(x) * LO(y)) + LO(HI(x) * LO(y))) % WordMod) + LO(LO(x) * HI(y)) >= WordMod
    /\ ret = ((x * y) \div WordMod) % SllMod

(***************************************************************************)
(* math-sll.c: dbl2sll and sll2dbl, on every double and every sll.         *)
(***************************************************************************)
Call_dbl2sll ==
    /\ pc = "idle"
    /\ \E d \in DOUBLE : \E r \in dbl2sll(d) : Enter("dbl2sll", d, 0, 0, r)

Call_sll2dbl ==
    /\ pc = "idle"
    /\ \E a \in SLL : Enter("sll2dbl", a, 0, 0, sll2dbl(a))

NextDbl ==
    \/ Call_dbl2sll
    \/ Call_sll2dbl
    \/ Return

SpecDbl == Init /\ [][NextDbl]_vars

\* Mantissa, sign and magnitude of a double; the magnitude in units of the
\* least subnormal.
DblMantissa(d) == d % Pow2(DblMantHiBits + WordBits)
DblNegative(d) == HI(d) >= DblSign
DblMagnitude(d) ==
    IF DblExponent(HI(d)) = 0
      THEN DblMantissa(d)
      ELSE (Pow2(DblMantHiBits + WordBits) + DblMantissa(d)) * Pow2(DblExponent(HI(d)) - 1)

\* 2^e in the units of DblMagnitude, for e >= -(WordBits); 2^0 is the
\* magnitude of the double with the bias for its exponent and mantissa 0.
DblUnit(e) == Pow2(DblMantHiBits + WordBits + (Pow2(DblExpBits - 1) - 1) - 1 + e)

\* A normal double below 2^31 in magnitude with no bit below 2^-30.
DblInRange(d) ==
    /\ DblExponent(HI(d)) # 0
    /\ DblExponent(HI(d)) # Pow2(DblExpBits) - 1
    /\ DblMagnitude(d) < DblUnit(WordBits - 1)
    /\ DblMagnitude(d) % DblUnit(0 - (WordBits - 2)) = 0

DblDistance(d, e) ==
    IF DblMagnitude(d) >= DblMagnitude(e)
      THEN DblMagnitude(d) - DblMagnitude(e)
      ELSE DblMagnitude(e) - DblMagnitude(d)

\* C17: for every normal double d with |d| < 2^31 and no bit below 2^-30,
\* sll2dbl(dbl2sll(d)) is within 2^-32 of d and has its sign; a double with
\* exponent field 0 converts to 0, and 0 converts to +0.0.
C17_DoubleRoundTrip ==
    /\ (Returned("dbl2sll") /\ DblInRange(x)) =>
          /\ DblDistance(sll2dbl(ret), x) <= DblUnit(0 - WordBits)
          /\ DblNegative(sll2dbl(ret)) = DblNegative(x)
    /\ (Returned("dbl2sll") /\ DblExponent(HI(x)) = 0) => ret = 0
    /\ (Returned("sll2dbl") /\ x = 0) => ret = 0

\* A negative double in the range with a mantissa, shifted into place.
C17_Witness ==
    /\ Returned("dbl2sll")
    /\ DblInRange(x)
    /\ DblNegative(x)
    /\ DblMantissa(x) # 0
    /\ DblExponent(HI(x)) < DblAlign
    /\ ret < 0
    /\ sll2dbl(ret) = x

\* The second scaling loop of slllog can never be left.
LogDownSpins ==
    /\ pc = "log_scale_down"
    /\ loc.x > CONST_SQRTE
    /\ LogDownBody(loc).x = loc.x

\* C21: for every x > 0 the two scaling loops of slllog are left, with the
\* scaled x in [CONST_1_SQRTE, CONST_SQRTE] and ln a whole number of units,
\* the count of the factors of e taken out or put in.
C21_LogScaledIntoInterval ==
    (fn = "slllog" /\ x > CONST_0) =>
        /\ ~LogSpins
        /\ ~LogDownSpins
        /\ pc = "log_newton" =>
              /\ CONST_1_SQRTE <= loc.x
              /\ loc.x <= CONST_SQRTE
              /\ sllfrac(loc.ln) = 0

\* The first scaling loop of sllsqrt can never be left.
SqrtDownSpins ==
    /\ fn = "sllsqrt"
    /\ pc = "sqrt_scale_down"
    /\ loc.x >= CONST_2
    /\ sllmul(loc.x, CONST_1_4) = loc.x

IsPowerOfTwo(v) == \E j \in 0 .. (2 * WordBits - 2) : v = Pow2(j)

\* 4^k as an sll: 2^j raw with j - WordBits even.
IsPowerOfFour(v) ==
    \E j \in 0 .. (2 * WordBits - 2) : v = Pow2(j) /\ (j + WordBits) % 2 = 0

\* C22: for every x > 0 the scaling loops of sllsqrt are left with
\* 1/2 <= x < 2 and n a power of two, and sllsqrt(4^k) is 2^k bit for bit
\* for every 4^k the format holds.
C22_SqrtScalesAndPowersOfFour ==
    (fn = "sllsqrt" /\ x > CONST_0) =>
        /\ ~SqrtDownSpins
        /\ ~SqrtSpins
        /\ pc = "sqrt_newton" =>
              /\ CONST_1_2 <= loc.x
              /\ loc.x < CONST_2
              /\ IsPowerOfTwo(loc.n)
        /\ (pc = "done" /\ IsPowerOfFour(x)) =>
              /\ IsPowerOfTwo(ret)
              /\ ret * ret = x * WordMod

\* sllsqrt(1/4) = 1/2: scaled up once, and the shortcut returns n.
C22_Witness ==
    /\ Returned("sllsqrt")
    /\ x = CONST_1_4
    /\ loc.x = CONST_1
    /\ loc.n = CONST_1_2
    /\ ret = CONST_1_2

\* Position of the leading one bit of v > 0.
DblLeadingBit(v) == CHOOSE p \in 0 .. (2 * WordBits - 1) : Pow2(p) <= v /\ v < Pow2(p + 1)

\* The least magnitude whose double has a nonzero exponent field: 1 with
\* the 11 exponent bits of the source, 2^(2 * WordBits - 1 - DblAlign) with
\* the exponent bits of the model.
DblLeastNormal == Pow2(2 * WordBits - 1 - DblAlign)

\* v with every bit more than 52 places (the mantissa's width) below its
\* leading one cleared.
DblTruncated(v) == v - (v % Pow2(DblLeadingBit(v) - (DblMantHiBits + WordBits)))

DblSllMagnitude == IF x < 0 THEN 0 - x ELSE x

\* C23: for every sll s with 0 < |s| < 2^62, dbl2sll(sll2dbl(s)) has the
\* sign of s and the magnitude of s cut to 53 significant bits, so it is s
\* itself when |s| < 2^53; and sll2dbl stores the exponent 991 + p, p the
\* place of the leading one bit (991 = 1053 - 62).
C23_SllRoundTrip ==
    (Returned("sll2dbl") /\ DblLeastNormal <= DblSllMagnitude
                         /\ DblSllMagnitude < Pow2(2 * WordBits - 2)) =>
        /\ DblExponent(HI(ret)) =
               (DblAlign - (2 * WordBits - 2)) + DblLeadingBit(DblSllMagnitude)
        /\ \A r \in dbl2sll(ret) :
               /\ (r < 0) = (x < 0)
               /\ (IF r < 0 THEN 0 - r ELSE r) = DblTruncated(DblSllMagnitude)
               /\ DblSllMagnitude < Pow2(DblMantHiBits + WordBits + 1) => r = x

\* A negative sll with more significant bits than the mantissa holds.
C23_Witness ==
    /\ Returned("sll2dbl")
    /\ x < 0
    /\ DblLeastNormal <= DblSllMagnitude
    /\ DblSllMagnitude < Pow2(2 * WordBits - 2)
    /\ DblTruncated(DblSllMagnitude) # DblSllMagnitude
    /\ dbl2sll(ret) = {0 - DblTruncated(DblSllMagnitude)}

====
